---- MODULE Spec2Model ----
(***************************************************************************)
(* Model of backend/main.py: the OCR request handler perform_ocr, the two  *)
(* lru_cache'd model factories, extract_layout_text and run_biobert_ner.   *)
(*                                                                         *)
(* Strings are sequences of one-character strings.  Scores are tokens      *)
(* ("0.9", "0.0", "None").  Block coordinates are given in half pixels so  *)
(* that fractional detector output and int()'s truncation can be shown.    *)
(***************************************************************************)
EXTENDS Integers, Sequences, FiniteSets, TLC

\* ------------------------------------------------------------------ bounds
NumRequests == 2
MaxBlocks == 3
MaxLines == 3

\* ------------------------------------------------------- program constants
max_chunk_length == 400

\* ------------------------------------------------------------ str helpers
Whitespace == {" ", "\n", "\r"}
LineBreaks == {"\n", "\r"}

Rep(c, n) == [k \in 1..n |-> c]

\* str.strip(): drop leading and trailing whitespace.
strip(s) ==
  IF \A k \in 1..Len(s) : s[k] \in Whitespace THEN <<>>
  ELSE LET first == CHOOSE k \in 1..Len(s) :
                       s[k] \notin Whitespace /\ \A j \in 1..(k-1) : s[j] \in Whitespace
           last == CHOOSE k \in 1..Len(s) :
                       s[k] \notin Whitespace /\ \A j \in (k+1)..Len(s) : s[j] \in Whitespace
       IN SubSeq(s, first, last)

\* str.splitlines(): split at \n, \r and \r\n; no empty last line.
RECURSIVE splitlines(_)
splitlines(s) ==
  IF s = <<>> THEN <<>>
  ELSE IF \A k \in 1..Len(s) : s[k] \notin LineBreaks THEN <<s>>
  ELSE LET e == CHOOSE k \in 1..Len(s) :
                   s[k] \in LineBreaks /\ \A j \in 1..(k-1) : s[j] \notin LineBreaks
           w == IF s[e] = "\r" /\ e < Len(s) /\ s[e+1] = "\n" THEN 2 ELSE 1
       IN <<SubSeq(s, 1, e-1)>> \o splitlines(SubSeq(s, e+w, Len(s)))

\* sep.join(parts)
RECURSIVE join(_, _)
join(sep, parts) ==
  IF parts = <<>> THEN <<>>
  ELSE IF Len(parts) = 1 THEN parts[1]
  ELSE parts[1] \o sep \o join(sep, Tail(parts))

\* dict.get(key, default)
get(d, key, default) == IF key \in DOMAIN d THEN d[key] ELSE default

\* --------------------------------------------------------------- state
VARIABLES
  layout_cache,      \* lru_cache of get_layout_model: 0 = empty, else the instance
  layout_built,      \* number of TesseractLayoutModel instances constructed
  ner_cache,         \* lru_cache of get_ner_pipeline: 0 = empty, else the instance
  ner_built,         \* number of NER pipelines constructed
  rpc,               \* per request: "idle", "reading" (awaiting file.read()), "running", "done"
  active,            \* the request whose coroutine owns the locals below (0: none yet)
  pc,                \* position of that coroutine in perform_ocr and its callees
  upload,            \* the uploaded file: what each black box yields on it
  output,            \* the output query parameter
  exc,               \* the exception that was raised, "None" if none
  processed,         \* processed_image, as its shape [w, h]
  layout_model,      \* layout_model in extract_layout_text (0: not obtained)
  block_idx,         \* position of "for block in layout"
  segments, collected_text,
  ocr_calls,         \* the crops handed to pytesseract.image_to_string, in call order
  ocr_result,        \* the dict returned by extract_layout_text
  full_text,         \* full_text in perform_ocr, text in run_biobert_ner
  nlp,               \* nlp in run_biobert_ner (0: not obtained)
  sentences,         \* what "for sentence in text.splitlines()" has still to visit
  current_chunk, current_length, chunks,
  chunk_idx,         \* position of "for chunk in chunks"
  entities,
  ner_calls,         \* the chunks handed to nlp(...), in call order
  response_payload,
  response,          \* the JSONResponse returned
  ref                \* one earlier request and its response, kept for comparison

process_vars == <<layout_cache, layout_built, ner_cache, ner_built>>
layout_vars == <<processed, layout_model, block_idx, segments, collected_text,
                 ocr_calls, ocr_result>>
ner_vars == <<full_text, nlp, sentences, current_chunk, current_length, chunks,
              chunk_idx, entities, ner_calls>>
reply_vars == <<response_payload, response>>
vars == <<process_vars, rpc, active, pc, upload, output, exc, layout_vars,
          ner_vars, reply_vars, ref>>

Requests == 1..NumRequests
NoPayload == [k \in {} |-> <<>>]
NoResponse == [status_code |-> 0, content |-> NoPayload]
NoRef == [req |-> 0]

\* ----------------------------------------------------------- black boxes
\* Each black box is a function of the upload (a deterministic stub): the
\* upload says which stage raises on it, what the detector finds in it, what
\* Tesseract reads in each block and how the NER model answers.
Faults == {"none", "read", "decode", "preprocess", "detect", "recognize", "render"}
NerKinds == {"none", "pair", "no_score", "raises"}
Outputs == {"text", "pdf", "both"}

Block(type, coordinates, score, ocr) ==
  [type |-> type, coordinates |-> coordinates, score |-> score, ocr |-> ocr]

Upload(fault, w, h, blocks, ner) ==
  [fault |-> fault, w |-> w, h |-> h, blocks |-> blocks, ner |-> ner]

\* nlp(chunk): the predictions of the NER pipeline, offsets local to the chunk.
Predict(kind, chunk) ==
  IF kind = "pair"
  THEN LET p == [entity_group |-> "Disease", score |-> "0.9", word |-> <<chunk[1]>>,
                 start |-> 0, end |-> 1]
       IN <<p, p>>
  ELSE IF kind = "no_score"
  THEN <<[entity_group |-> "Drug", word |-> <<chunk[Len(chunk)]>>,
          start |-> Len(chunk) - 1, end |-> Len(chunk)]>>
  ELSE <<>>

\* ------------------------------------------------ the two cached factories
\* @lru_cache(maxsize=1): the value a successful call leaves in the cache.
lru_cache_drop(instance) == 0
lru_cache_put(instance) == instance

\* ---------------------------------------------------- extract_layout_text
\* int(c) of a coordinate given in half pixels: truncation toward zero.
int(c) == IF c >= 0 THEN c \div 2 ELSE -((-c) \div 2)

\* A slice bound k on an axis of length n, as numpy resolves it.
SliceIndex(k, n) ==
  IF k < 0 THEN (IF k + n < 0 THEN 0 ELSE k + n) ELSE (IF k > n THEN n ELSE k)

SliceLen(lo, hi, n) ==
  IF SliceIndex(hi, n) > SliceIndex(lo, n) THEN SliceIndex(hi, n) - SliceIndex(lo, n) ELSE 0

\* processed_image[y_1:y_2, x_1:x_2], as its shape.
Crop(image, bbox) ==
  [w |-> SliceLen(bbox[1], bbox[3], image.w), h |-> SliceLen(bbox[2], bbox[4], image.h)]

\* x_1, y_1, x_2, y_2 = map(int, block.coordinates)
BBox(block) == [k \in 1..4 |-> int(block.coordinates[k])]

Segment(block, cleaned_text) ==
  [text |-> cleaned_text, bbox |-> BBox(block), type |-> block.type,
   score |-> IF block.score # "None" THEN block.score ELSE "None"]

StaleSegments == segments
NewSegments == <<>>

PrependSegment(segs, seg) == <<seg>> \o segs
AppendSegment(segs, seg) == Append(segs, seg)

\* ------------------------------------------------------- run_biobert_ner
IgnoresWhitespace(text) == text = <<>>
ShortCircuit(text) == strip(text) = <<>>

ExceedsOrReachesMax(length, sentence) == length + Len(sentence) >= max_chunk_length
ExceedsMax(length, sentence) == length + Len(sentence) > max_chunk_length

DropsSentence(sentence) == <<>>
StartChunk(sentence) == <<sentence>>

FlushChunk(done, chunk) ==
  IF chunk # <<>> THEN Append(done, join(<<" ">>, chunk)) ELSE done

ToEntity(p) ==
  [entity |-> get(p, "entity_group", "None"),
   score |-> get(p, "score", "0.0"),
   text |-> get(p, "word", "None"),
   start |-> get(p, "start", 0),
   end |-> get(p, "end", 0)]

RECURSIVE ExtendUnique(_, _)
ExtendUnique(ents, predictions) ==
  IF predictions = <<>> THEN ents
  ELSE ExtendUnique(
         IF \E k \in 1..Len(ents) : ents[k] = ToEntity(Head(predictions))
         THEN ents ELSE Append(ents, ToEntity(Head(predictions))),
         Tail(predictions))

ExtendEntities(ents, predictions) ==
  ents \o [k \in 1..Len(predictions) |-> ToEntity(predictions[k])]

\* ---------------------------------------------------------- perform_ocr
\* build_pdf_from_text: the lines handed to multi_cell, as the document.
build_pdf_from_text(text) ==
  [pdf_lines |-> IF splitlines(text) = <<>> THEN <<text>> ELSE splitlines(text)]

Payload(text, segs, ents) == [text |-> text, segments |-> segs, entities |-> ents]

WithPdf(payload, text) == [pdf_base64 |-> build_pdf_from_text(text)] @@ payload

PartialErrorResponse(e) ==
  [status_code |-> 500, content |-> [error |-> e] @@ response_payload]
ErrorResponse(e) == [status_code |-> 500, content |-> [error |-> e]]

OkResponse(payload) == [status_code |-> 200, content |-> payload]

\* ---------------------------------------------------------------- actions
Raise(e) == exc' = e /\ pc' = "except"

\* The pipeline runs on the event loop without a suspension point: no other
\* coroutine runs while pc is inside it.
LoopFree == pc \in {"idle", "responded"}

\* A request arrives: perform_ocr is called and suspends at "await file.read()".
Accept(r) ==
  /\ rpc[r] = "idle"
  /\ rpc' = [rpc EXCEPT ![r] = "reading"]
  /\ UNCHANGED <<process_vars, active, pc, upload, output, exc, layout_vars,
                 ner_vars, reply_vars, ref>>

\* The read completes and the coroutine is resumed with fresh locals (segments
\* is bound by line 76 and not before).
ReadUpload(r, u, o) ==
  /\ LoopFree
  /\ rpc[r] = "reading"
  /\ rpc' = [rpc EXCEPT ![r] = "running"]
  /\ active' = r
  /\ upload' = u
  /\ output' = o
  /\ processed' = [w |-> 0, h |-> 0]
  /\ layout_model' = 0
  /\ block_idx' = 0
  /\ collected_text' = <<>>
  /\ ocr_calls' = <<>>
  /\ ocr_result' = [text |-> <<>>, segments |-> <<>>]
  /\ full_text' = <<>>
  /\ nlp' = 0
  /\ sentences' = <<>>
  /\ current_chunk' = <<>>
  /\ current_length' = 0
  /\ chunks' = <<>>
  /\ chunk_idx' = 0
  /\ entities' = <<>>
  /\ ner_calls' = <<>>
  /\ response_payload' = NoPayload
  /\ response' = NoResponse
  /\ IF u.fault = "read"
     THEN Raise("OSError")
     ELSE exc' = "None" /\ pc' = "decode"
  /\ UNCHANGED <<process_vars, segments, ref>>

\* image = Image.open(io.BytesIO(contents)).convert("RGB")
DecodeImage ==
  /\ pc = "decode"
  /\ IF upload.fault = "decode"
     THEN Raise("UnidentifiedImageError")
     ELSE pc' = "preprocess" /\ exc' = exc
  /\ UNCHANGED <<process_vars, rpc, active, upload, output, layout_vars,
                 ner_vars, reply_vars, ref>>

\* processed = preprocess_image(image): same shape, one channel.
Preprocess ==
  /\ pc = "preprocess"
  /\ IF upload.fault = "preprocess"
     THEN Raise("cv2.error") /\ processed' = processed
     ELSE /\ processed' = [w |-> upload.w, h |-> upload.h]
          /\ pc' = "get_layout_model"
          /\ exc' = exc
  /\ UNCHANGED <<process_vars, rpc, active, upload, output, layout_model,
                 block_idx, segments, collected_text, ocr_calls, ocr_result,
                 ner_vars, reply_vars, ref>>

\* layout_model = get_layout_model(): the cached instance, or a new one.
GetLayoutModel ==
  /\ pc = "get_layout_model"
  /\ IF layout_cache # 0
     THEN /\ layout_model' = layout_cache
          /\ UNCHANGED <<layout_cache, layout_built>>
     ELSE /\ layout_built' = layout_built + 1
          /\ layout_cache' = lru_cache_put(layout_built + 1)
          /\ layout_model' = layout_built + 1
  /\ pc' = "detect"
  /\ UNCHANGED <<ner_cache, ner_built, rpc, active, upload, output, exc,
                 processed, block_idx, segments, collected_text, ocr_calls,
                 ocr_result, ner_vars, reply_vars, ref>>

\* lp.TesseractLayoutModel(...) raises: nothing is cached.
LayoutCtorRaises ==
  /\ pc = "get_layout_model"
  /\ layout_cache = 0
  /\ Raise("LayoutInitError")
  /\ UNCHANGED <<process_vars, rpc, active, upload, output, layout_vars,
                 ner_vars, reply_vars, ref>>

\* layout = layout_model.detect(layout_image); segments = []; collected_text = []
Detect ==
  /\ pc = "detect"
  /\ IF upload.fault = "detect"
     THEN Raise("DetectError") /\ UNCHANGED <<segments, collected_text, block_idx>>
     ELSE /\ segments' = NewSegments
          /\ collected_text' = <<>>
          /\ block_idx' = 1
          /\ pc' = "blocks"
          /\ exc' = exc
  /\ UNCHANGED <<process_vars, rpc, active, upload, output, processed,
                 layout_model, ocr_calls, ocr_result, ner_vars, reply_vars, ref>>

\* One pass of "for block in layout".
BlockStep ==
  /\ pc = "blocks"
  /\ block_idx <= Len(upload.blocks)
  /\ LET block == upload.blocks[block_idx]
         crop == Crop(processed, BBox(block))
         cleaned_text == strip(block.ocr)
     IN IF block.type # "Text" \/ crop.w * crop.h = 0
        THEN /\ block_idx' = block_idx + 1
             /\ UNCHANGED <<pc, exc, segments, collected_text, ocr_calls>>
        ELSE /\ ocr_calls' = Append(ocr_calls, crop)
             /\ IF upload.fault = "recognize"
                THEN Raise("TesseractError")
                     /\ UNCHANGED <<block_idx, segments, collected_text>>
                ELSE /\ block_idx' = block_idx + 1
                     /\ UNCHANGED <<pc, exc>>
                     /\ IF cleaned_text = <<>>
                        THEN UNCHANGED <<segments, collected_text>>
                        ELSE /\ collected_text' = Append(collected_text, cleaned_text)
                             /\ segments' = AppendSegment(segments, Segment(block, cleaned_text))
  /\ UNCHANGED <<process_vars, rpc, active, upload, output, processed,
                 layout_model, ocr_result, ner_vars, reply_vars, ref>>

\* full_text = "\n".join(collected_text); return {...}
ReturnDocument ==
  /\ pc = "blocks"
  /\ block_idx > Len(upload.blocks)
  /\ ocr_result' = [text |-> join(<<"\n">>, collected_text), segments |-> segments]
  /\ pc' = "extracted"
  /\ UNCHANGED <<process_vars, rpc, active, upload, output, exc, processed,
                 layout_model, block_idx, segments, collected_text, ocr_calls,
                 ner_vars, reply_vars, ref>>

\* full_text = ocr_result["text"]
AssignFullText ==
  /\ pc = "extracted"
  /\ full_text' = ocr_result.text
  /\ pc' = "run_biobert_ner"
  /\ UNCHANGED <<process_vars, rpc, active, upload, output, exc, layout_vars,
                 nlp, sentences, current_chunk, current_length, chunks,
                 chunk_idx, entities, ner_calls, reply_vars, ref>>

\* if not text.strip(): return []
RunNer ==
  /\ pc = "run_biobert_ner"
  /\ IF ShortCircuit(full_text)
     THEN entities' = <<>> /\ pc' = "ner_done"
     ELSE entities' = entities /\ pc' = "get_ner_pipeline"
  /\ UNCHANGED <<process_vars, rpc, active, upload, output, exc, layout_vars,
                 full_text, nlp, sentences, current_chunk, current_length,
                 chunks, chunk_idx, ner_calls, reply_vars, ref>>

\* nlp = get_ner_pipeline(), then the chunker's locals (lines 113-118).
GetNerPipeline ==
  /\ pc = "get_ner_pipeline"
  /\ IF ner_cache # 0
     THEN /\ nlp' = ner_cache
          /\ UNCHANGED <<ner_cache, ner_built>>
     ELSE /\ ner_built' = ner_built + 1
          /\ ner_cache' = lru_cache_put(ner_built + 1)
          /\ nlp' = ner_built + 1
  /\ chunks' = <<>>
  /\ current_chunk' = <<>>
  /\ current_length' = 0
  /\ sentences' = splitlines(full_text)
  /\ pc' = "chunking"
  /\ UNCHANGED <<layout_cache, layout_built, rpc, active, upload, output, exc,
                 layout_vars, full_text, chunk_idx, entities, ner_calls,
                 reply_vars, ref>>

\* pipeline("ner", ...) raises: nothing is cached.
NerCtorRaises ==
  /\ pc = "get_ner_pipeline"
  /\ ner_cache = 0
  /\ Raise("NerInitError")
  /\ UNCHANGED <<process_vars, rpc, active, upload, output, layout_vars,
                 ner_vars, reply_vars, ref>>

\* One pass of "for sentence in text.splitlines()".
ChunkStep ==
  /\ pc = "chunking"
  /\ sentences # <<>>
  /\ sentences' = Tail(sentences)
  /\ LET sentence == strip(Head(sentences))
     IN IF sentence = <<>>
        THEN UNCHANGED <<chunks, current_chunk, current_length>>
        ELSE IF ExceedsMax(current_length, sentence)
        THEN /\ chunks' = FlushChunk(chunks, current_chunk)
             /\ current_chunk' = StartChunk(sentence)
             /\ current_length' = Len(sentence)
        ELSE /\ current_chunk' = Append(current_chunk, sentence)
             /\ current_length' = current_length + Len(sentence)
             /\ chunks' = chunks
  /\ UNCHANGED <<process_vars, rpc, active, pc, upload, output, exc,
                 layout_vars, full_text, nlp, chunk_idx, entities, ner_calls,
                 reply_vars, ref>>

\* The loop is over: the last chunk is flushed, entities = [] (lines 132-135).
ChunkFlush ==
  /\ pc = "chunking"
  /\ sentences = <<>>
  /\ chunks' = FlushChunk(chunks, current_chunk)
  /\ entities' = <<>>
  /\ chunk_idx' = 1
  /\ pc' = "classify"
  /\ UNCHANGED <<process_vars, rpc, active, upload, output, exc, layout_vars,
                 full_text, nlp, sentences, current_chunk, current_length,
                 ner_calls, reply_vars, ref>>

\* One pass of "for chunk in chunks": predictions = nlp(chunk), then the
\* inner loop over the predictions.
ClassifyChunk ==
  /\ pc = "classify"
  /\ chunk_idx <= Len(chunks)
  /\ ner_calls' = Append(ner_calls, chunks[chunk_idx])
  /\ IF upload.ner = "raises"
     THEN Raise("NerError") /\ UNCHANGED <<entities, chunk_idx>>
     ELSE /\ entities' = ExtendEntities(entities, Predict(upload.ner, chunks[chunk_idx]))
          /\ chunk_idx' = chunk_idx + 1
          /\ UNCHANGED <<pc, exc>>
  /\ UNCHANGED <<process_vars, rpc, active, upload, output, layout_vars,
                 full_text, nlp, sentences, current_chunk, current_length,
                 chunks, reply_vars, ref>>

\* return entities
NerReturn ==
  /\ pc = "classify"
  /\ chunk_idx > Len(chunks)
  /\ pc' = "ner_done"
  /\ UNCHANGED <<process_vars, rpc, active, upload, output, exc, layout_vars,
                 ner_vars, reply_vars, ref>>

\* response_payload = {"text": ..., "segments": ..., "entities": ...}
BuildPayload ==
  /\ pc = "ner_done"
  /\ response_payload' = Payload(full_text, ocr_result.segments, entities)
  /\ pc' = "export"
  /\ UNCHANGED <<process_vars, rpc, active, upload, output, exc, layout_vars,
                 ner_vars, response, ref>>

\* if output in {"pdf", "both"}: ...; return JSONResponse(response_payload)
ExportAndReturn ==
  /\ pc = "export"
  /\ IF output \in {"pdf", "both"} /\ upload.fault = "render"
     THEN Raise("FPDFException") /\ UNCHANGED <<rpc, reply_vars>>
     ELSE /\ response_payload' = IF output \in {"pdf", "both"}
                                 THEN WithPdf(response_payload, full_text)
                                 ELSE response_payload
          /\ response' = OkResponse(response_payload')
          /\ pc' = "responded"
          /\ rpc' = [rpc EXCEPT ![active] = "done"]
          /\ exc' = exc
  /\ UNCHANGED <<process_vars, active, upload, output, layout_vars, ner_vars, ref>>

\* except Exception as exc: return JSONResponse({"error": str(exc)}, status_code=500)
ExceptHandler ==
  /\ pc = "except"
  /\ response' = ErrorResponse(exc)
  /\ pc' = "responded"
  /\ rpc' = [rpc EXCEPT ![active] = "done"]
  /\ UNCHANGED <<process_vars, active, upload, output, exc, layout_vars,
                 ner_vars, response_payload, ref>>

\* Keep one request's input and response, to compare a later one with.
Remember ==
  /\ pc = "responded"
  /\ ref.req = 0
  /\ ref' = [req |-> active, upload |-> upload, output |-> output,
             response |-> response]
  /\ UNCHANGED <<process_vars, rpc, active, pc, upload, output, exc,
                 layout_vars, ner_vars, reply_vars>>

\* ----------------------------------------------------------------- inputs
\* Uploads of the request loop: a page with two text blocks around a figure,
\* the same page with 300 and 150 characters in the blocks (two chunks), a
\* page without text blocks and a page whose only text block reads as
\* whitespace.
Page(first, second) ==
  << Block("Text", <<0, 0, 4, 4>>, "0.9", <<" ">> \o first \o <<"\n">>),
     Block("Figure", <<4, 0, 8, 4>>, "0.5", <<"f">>),
     Block("Text", <<4, 0, 8, 4>>, "None", second) >>

TwoBlocks == Page(<<"a", "b">>, <<"c", "\n", "d">>)

LongBlocks == Page(Rep("a", 300), Rep("b", 150))

NoTextBlock == << Block("Figure", <<0, 0, 8, 4>>, "0.5", <<"f">>) >>

BlankBlock == << Block("Text", <<0, 0, 8, 4>>, "0.9", <<" ", "\n">>) >>

Uploads ==
  {Upload(f, 4, 2, TwoBlocks, "pair") : f \in Faults}
  \cup {Upload("none", 4, 2, TwoBlocks, k) : k \in NerKinds}
  \cup {Upload("none", 4, 2, b, "pair") : b \in {LongBlocks, NoTextBlock, BlankBlock}}

\* Blocks for extract_layout_text alone: coordinate pairs in half pixels that
\* are in range, fractional, negative, reversed, empty, too large or outside.
XRanges == {<<0, 4>>, <<1, 4>>, <<-1, 4>>, <<-2, 4>>, <<0, -2>>, <<4, 0>>,
            <<2, 2>>, <<0, 10>>, <<-10, 4>>, <<6, 8>>}
YRanges == {<<-2, 2>>, <<2, 0>>}
OcrTexts == {<<>>, <<" ", "\n">>, <<" ", "d", "\n">>, <<"e", "\n", "f">>}
ImageShapes == {[w |-> 2, h |-> 2], [w |-> 3, h |-> 1]}

BlockSet ==
  {Block("Text", <<x[1], 0, x[2], 2>>, "0.9", <<"a", "b">>) : x \in XRanges}
  \cup {Block("Text", <<0, y[1], 4, y[2]>>, "0.9", <<"c">>) : y \in YRanges}
  \cup {Block("Text", <<0, 0, 2, 2>>, "None", o) : o \in OcrTexts}
  \cup {Block("Figure", <<0, 0, 4, 2>>, "0.5", <<"g">>)}

BlockSeqs == UNION {[1..n -> BlockSet] : n \in 0..MaxBlocks}

\* Texts for run_biobert_ner alone: up to MaxLines lines, each blank, only
\* whitespace, one padded character, or 200, 300, 400 or 500 characters.
LineShapes ==
  {[pad |-> TRUE, len |-> 0], [pad |-> TRUE, len |-> 1]}
  \cup {[pad |-> FALSE, len |-> n] : n \in {0, 200, 300, 400, 500}}

LineChar(k) == <<"a", "b", "c", "d", "e", "f">>[k]

Line(shape, c) ==
  IF shape.pad THEN <<" ">> \o Rep(c, shape.len) \o <<" ", "\r">>
  ELSE Rep(c, shape.len)

Texts ==
  UNION {{join(<<"\n">>, [k \in 1..n |-> Line(f[k], LineChar(k))]) :
            f \in [1..n -> LineShapes]} : n \in 0..MaxLines}

\* --------------------------------------------------------- specifications
IdleFrame ==
  /\ active = 0
  /\ output = "text"
  /\ exc = "None"
  /\ layout_model = 0
  /\ block_idx = 0
  /\ segments = <<>>
  /\ collected_text = <<>>
  /\ ocr_calls = <<>>
  /\ ocr_result = [text |-> <<>>, segments |-> <<>>]
  /\ nlp = 0
  /\ sentences = <<>>
  /\ current_chunk = <<>>
  /\ current_length = 0
  /\ chunks = <<>>
  /\ chunk_idx = 0
  /\ entities = <<>>
  /\ ner_calls = <<>>
  /\ response_payload = NoPayload
  /\ response = NoResponse
  /\ ref = NoRef
  /\ rpc = [r \in Requests |-> "idle"]

\* The process after import: no model is constructed, no request is running.
Init ==
  /\ layout_cache = 0 /\ layout_built = 0
  /\ ner_cache = 0 /\ ner_built = 0
  /\ pc = "idle"
  /\ upload = Upload("none", 0, 0, <<>>, "none")
  /\ processed = [w |-> 0, h |-> 0]
  /\ full_text = <<>>
  /\ IdleFrame

Pipeline ==
  \/ DecodeImage \/ Preprocess \/ GetLayoutModel \/ Detect \/ BlockStep
  \/ ReturnDocument \/ AssignFullText \/ RunNer \/ GetNerPipeline \/ ChunkStep
  \/ ChunkFlush \/ ClassifyChunk \/ NerReturn \/ BuildPayload
  \/ ExportAndReturn \/ ExceptHandler

Next ==
  \/ \E r \in Requests : Accept(r)
  \/ \E r \in Requests, u \in Uploads, o \in Outputs : ReadUpload(r, u, o)
  \/ Pipeline
  \/ LayoutCtorRaises
  \/ NerCtorRaises

Spec == Init /\ [][Next]_vars

\* The request loop with constructors that do not fail, and one earlier
\* request remembered.
NextDet ==
  \/ \E r \in Requests : Accept(r)
  \/ \E r \in Requests, u \in Uploads, o \in Outputs : ReadUpload(r, u, o)
  \/ Pipeline
  \/ Remember

SpecDet == Init /\ [][NextDet]_vars

\* extract_layout_text(processed_image) on its own.
InitLayout ==
  /\ layout_cache = 0 /\ layout_built = 0
  /\ ner_cache = 0 /\ ner_built = 0
  /\ pc = "get_layout_model"
  /\ processed \in ImageShapes
  /\ \E b \in BlockSeqs : upload = Upload("none", processed.w, processed.h, b, "none")
  /\ full_text = <<>>
  /\ IdleFrame

NextLayout == GetLayoutModel \/ Detect \/ BlockStep \/ ReturnDocument

SpecLayout == InitLayout /\ [][NextLayout]_vars

\* run_biobert_ner(text) on its own.
InitChunk ==
  /\ layout_cache = 0 /\ layout_built = 0
  /\ ner_cache = 0 /\ ner_built = 0
  /\ pc = "run_biobert_ner"
  /\ \E k \in NerKinds : upload = Upload("none", 0, 0, <<>>, k)
  /\ processed = [w |-> 0, h |-> 0]
  /\ full_text \in Texts
  /\ IdleFrame

NextChunk ==
  \/ RunNer \/ GetNerPipeline \/ NerCtorRaises \/ ChunkStep \/ ChunkFlush
  \/ ClassifyChunk \/ NerReturn

SpecChunk == InitChunk /\ [][NextChunk]_vars

\* ------------------------------------------------------------- properties
IsBlankText(text) == \A k \in 1..Len(text) : text[k] \in Whitespace

\* The whitespace-stripped non-blank lines of a text, in order.
NonBlankLines(text) ==
  LET raw == splitlines(text)
      nonblank(l) == l # <<>>
  IN SelectSeq([k \in 1..Len(raw) |-> strip(raw[k])], nonblank)

Responded == pc = "responded"

\* C1: whatever stage raised (read, decode, preprocess, layout construction or
\* detection, recognition of a block, NER construction or call, PDF export),
\* the response has status 500 and its content has the single key "error",
\* holding the exception's message: no text, segments, entities or pdf_base64.
C1_UniformError ==
  (Responded /\ exc # "None") =>
     /\ response.status_code = 500
     /\ DOMAIN response.content = {"error"}
     /\ response.content.error = exc

\* C1 witness: the PDF export raised after the payload with text, segments
\* and entities had been built, and the response carries the error alone.
C1_Witness ==
  /\ Responded
  /\ exc = "FPDFException"
  /\ DOMAIN response_payload = {"text", "segments", "entities"}
  /\ response_payload.entities # <<>>
  /\ DOMAIN response.content = {"error"}

\* A block survives when it is of kind Text, its crop is not empty and its
\* recognised text is not empty once stripped.
Survives(block) ==
  /\ block.type = "Text"
  /\ Crop(processed, BBox(block)).w > 0
  /\ Crop(processed, BBox(block)).h > 0
  /\ ~IsBlankText(block.ocr)

\* C2: the document returned by extract_layout_text has as text the texts of
\* its segments joined by "\n", and its segments are the surviving blocks, one
\* segment per block, in the order of the detector.
C2_DocumentMatchesBlocks ==
  pc = "extracted" =>
     LET segs == ocr_result.segments
         kept == SelectSeq(upload.blocks, Survives)
     IN /\ ocr_result.text = join(<<"\n">>, [k \in 1..Len(segs) |-> segs[k].text])
        /\ Len(segs) = Len(kept)
        /\ \A k \in 1..Len(segs) :
             /\ segs[k].text = strip(kept[k].ocr)
             /\ segs[k].bbox = BBox(kept[k])
             /\ segs[k].type = "Text"
             /\ segs[k].score = kept[k].score

\* C2 witness: a document of two different segments, one block dropped.
C2_Witness ==
  /\ pc = "extracted"
  /\ Len(ocr_result.segments) = 2
  /\ ocr_result.segments[1] # ocr_result.segments[2]
  /\ Len(upload.blocks) > 2

\* C3: every chunk handed to the NER model has at most 400 characters, unless
\* it is a single line that is itself longer than 400 characters.
C3_ChunkWithinMax ==
  \A k \in 1..Len(ner_calls) :
     \/ Len(ner_calls[k]) <= max_chunk_length
     \/ \E i \in 1..Len(NonBlankLines(full_text)) :
          /\ ner_calls[k] = NonBlankLines(full_text)[i]
          /\ Len(ner_calls[k]) > max_chunk_length

\* C4: every segment has a non-empty text and a bounding box with x1 < x2,
\* y1 < y2 that lies inside the image, and no degenerate crop reaches the
\* recognition engine.
C4_BoxInsideImage ==
  pc = "extracted" =>
     /\ \A k \in 1..Len(ocr_result.segments) :
          LET seg == ocr_result.segments[k]
          IN /\ seg.text # <<>>
             /\ seg.bbox[1] < seg.bbox[3]
             /\ seg.bbox[2] < seg.bbox[4]
             /\ 0 <= seg.bbox[1] /\ seg.bbox[3] <= processed.w
             /\ 0 <= seg.bbox[2] /\ seg.bbox[4] <= processed.h
     /\ \A k \in 1..Len(ocr_calls) : ocr_calls[k].w > 0 /\ ocr_calls[k].h > 0

\* run_biobert_ner has returned or raised in the running request.
NerOver == pc \in {"ner_done", "export", "except", "responded"}

\* C5, first half: on a blank text run_biobert_ner returns no entity, and the
\* request neither asks for the NER pipeline (so constructs none) nor calls it.
NerSkippedOnBlank ==
  (NerOver /\ IsBlankText(full_text)) =>
     /\ entities = <<>>
     /\ nlp = 0
     /\ exc # "NerInitError"
     /\ ner_calls = <<>>

C6_SameInputSameResponse ==
  (Responded /\ ref.req # 0 /\ ref.upload = upload /\ ref.output = output)
     => response = ref.response

\* C6 witness: a later request with the input of the remembered one has
\* answered 200 with entities, on models the earlier request left cached.
C6_Witness ==
  /\ Responded
  /\ ref.req # 0 /\ ref.req # active
  /\ ref.upload = upload /\ ref.output = output
  /\ response.status_code = 200
  /\ response.content.entities # <<>>
  /\ layout_built = 1 /\ ner_built = 1

\* C7: each model is constructed at most once, and only once a request's
\* pipeline has run; the cache holds that instance and every request uses it.
C7_ConstructedOnce ==
  /\ layout_built <= 1 /\ ner_built <= 1
  /\ layout_cache = layout_built /\ ner_cache = ner_built
  /\ layout_model \in {0, layout_cache}
  /\ nlp \in {0, ner_cache}
  /\ (\A r \in Requests : rpc[r] \in {"idle", "reading"})
        => (layout_built = 0 /\ ner_built = 0)

\* C7 witness: a request is in the layout stage with the cached layout model
\* while the NER pipeline is already constructed: an earlier request built
\* both, and this one reuses the layout model.
C7_Witness ==
  /\ pc = "detect"
  /\ layout_model = 1 /\ layout_built = 1
  /\ ner_built = 1
  /\ \E r \in Requests : rpc[r] = "done"

\* The chunker of section 4.4 on a sequence of lines: blank lines are skipped,
\* the counter sums the line lengths, a line that would push it over the
\* maximum flushes a non-empty accumulator and starts the next one.
RECURSIVE ReferenceChunks(_, _, _, _)
ReferenceChunks(lines, acc, count, done) ==
  IF lines = <<>>
  THEN IF acc # <<>> THEN Append(done, join(<<" ">>, acc)) ELSE done
  ELSE LET line == Head(lines)
       IN IF IsBlankText(line)
          THEN ReferenceChunks(Tail(lines), acc, count, done)
          ELSE IF count + Len(line) > max_chunk_length /\ acc # <<>>
          THEN ReferenceChunks(Tail(lines), <<line>>, Len(line),
                               Append(done, join(<<" ">>, acc)))
          ELSE ReferenceChunks(Tail(lines), Append(acc, line), count + Len(line), done)

StrippedLines(text) == [k \in 1..Len(splitlines(text)) |-> strip(splitlines(text)[k])]

ChunkerOver == pc \in {"classify", "ner_done"} /\ ~IsBlankText(full_text)

ChunkExamples ==
  /\ full_text = Rep("a", 500) => chunks = <<Rep("a", 500)>>
  /\ full_text = Rep("a", 300) \o <<"\n">> \o Rep("b", 300)
       => chunks = <<Rep("a", 300), Rep("b", 300)>>

\* C8 as claimed: the chunks are those of the section 4.4 algorithm run on the
\* lines of the text.
C8_Claimed ==
  ChunkerOver =>
     /\ chunks = ReferenceChunks(splitlines(full_text), <<>>, 0, <<>>)
     /\ ChunkExamples

\* C8 as amended: the chunks are those of the section 4.4 algorithm run on the
\* lines of the text after each line is stripped of surrounding whitespace;
\* one line of 500 characters gives one chunk, two of 300 give two.
C8_ReferenceOnStrippedLines ==
  ChunkerOver =>
     /\ chunks = ReferenceChunks(StrippedLines(full_text), <<>>, 0, <<>>)
     /\ ChunkExamples

\* C8 witness: two lines of 300 characters have become two chunks.
C8_Witness ==
  /\ pc = "ner_done"
  /\ full_text = Rep("a", 300) \o <<"\n">> \o Rep("b", 300)
  /\ Len(chunks) = 2

\* The entity a prediction must yield.
ExpectedEntity(p) ==
  [entity |-> p.entity_group,
   score |-> IF "score" \in DOMAIN p THEN p.score ELSE "0.0",
   text |-> p.word, start |-> p.start, end |-> p.end]

RECURSIVE ExpectedEntities(_)
ExpectedEntities(cs) ==
  IF cs = <<>> THEN <<>>
  ELSE LET ps == Predict(upload.ner, Head(cs))
       IN [k \in 1..Len(ps) |-> ExpectedEntity(ps[k])] \o ExpectedEntities(Tail(cs))

\* C9: the NER model is called on the chunks in chunk order, each at most once
\* and none skipped; when run_biobert_ner returns on a non-blank text it has
\* been called on every chunk, and the entities are the predictions of the
\* chunks in that order, one entity per prediction, with the model's offsets
\* and 0.0 for a missing score.
C9_OneCallPerChunk ==
  /\ pc \in {"classify", "ner_done", "except"} =>
        /\ Len(ner_calls) <= Len(chunks)
        /\ \A k \in 1..Len(ner_calls) : ner_calls[k] = chunks[k]
  /\ pc = "classify" => Len(ner_calls) = chunk_idx - 1
  /\ (pc = "ner_done" /\ ~IsBlankText(full_text)) =>
        /\ ner_calls = chunks
        /\ entities = ExpectedEntities(chunks)

\* C9 witness: two chunks, each answered by the same two predictions, have
\* given four entities.
C9_Witness ==
  /\ pc = "ner_done"
  /\ Len(chunks) = 2
  /\ upload.ner = "pair"
  /\ Len(entities) = 4
  /\ entities[1] = entities[2]

\* The lines cut after the positions in cuts, each group joined by a space.
RECURSIVE Grouped(_, _, _)
Grouped(lines, cuts, from) ==
  IF from > Len(lines) THEN <<>>
  ELSE LET to == CHOOSE c \in (cuts \cup {Len(lines)}) :
                    /\ c >= from
                    /\ \A d \in (cuts \cup {Len(lines)}) : d >= from => c <= d
       IN <<join(<<" ">>, SubSeq(lines, from, to))>> \o Grouped(lines, cuts, to + 1)

\* C10: the chunks are a cutting of the stripped non-blank lines into runs of
\* consecutive lines, each run joined by a space: no line is lost, repeated
\* or moved, no chunk is empty, and there is no chunk exactly when there is
\* no non-blank line.
C10_ChunksKeepLines ==
  pc \in {"classify", "ner_done"} =>
     LET lines == NonBlankLines(full_text)
     IN /\ \E cuts \in SUBSET (1..(Len(lines) - 1)) : chunks = Grouped(lines, cuts, 1)
        /\ \A k \in 1..Len(chunks) : chunks[k] # <<>>
        /\ (chunks = <<>>) <=> (lines = <<>>)

\* C10 witness: two non-blank lines and a blank one are held by two chunks.
C10_Witness ==
  /\ pc = "ner_done"
  /\ Len(splitlines(full_text)) > Len(NonBlankLines(full_text))
  /\ Len(NonBlankLines(full_text)) = 2
  /\ Len(chunks) = 2

====
